---- MODULE Spec2Model ----
(***************************************************************************)
(* nRio: layout engine, workspace store and incremental redraw differ of   *)
(* the tiling window manager in src/src/main.c.                            *)
(*                                                                         *)
(* Geometry is uint32_t in the source.  A uint32_t value v is represented  *)
(* as the pair <<v \div 2^16, v % 2^16>> so that wrap-around at 2^32 is    *)
(* computed exactly.  Counts, indices and the compiled-in configuration    *)
(* values (gap, border, ratio) never exceed 100 and are plain naturals.    *)
(***************************************************************************)
EXTENDS Integers, Sequences, FiniteSets, TLC

\* ------------------------------------------------------------------------
\* Program constants
\* ------------------------------------------------------------------------
MAX_WINDOWS_PER_WORKSPACE == 6
WORKSPACE_COUNT == 4
TOP_BAR_HEIGHT == 24
DEFAULT_GAP_SIZE == 4
DEFAULT_BORDER_SIZE == 2
FOCUSED_BORDER_MULTIPLIER == 3
MASTER_RATIO_DEFAULT == 50
MASTER_RATIO_MASTER_STACK == 60

COLOR_BORDER_NORMAL == 9601908
COLOR_WINDOW_BG == 2631720
COLOR_BAR_BG == 1908769
COLOR_EMPTY_DESKTOP == 3946550

LAYOUT_HORIZONTAL == 0
LAYOUT_VERTICAL == 1
LAYOUT_GRID == 2
LAYOUT_FULLSCREEN == 3
LAYOUT_MASTER_STACK == 4
LAYOUT_COUNT == 5

\* ------------------------------------------------------------------------
\* Bounds of the model (inputs the environment supplies)
\* ------------------------------------------------------------------------
\* smallest framebuffer edge considered
MinFb == 64
\* the layout specification draws widths and heights from MinFb..MinFb+FbSpan
FbSpan == 3
\* hotkey callbacks the environment delivers after _start
MaxCalls == 11

\* ------------------------------------------------------------------------
\* uint32_t arithmetic on <<high half, low half>>
\* ------------------------------------------------------------------------
HalfWord == 2 ^ 16

U32(n) == <<(n \div HalfWord) % HalfWord, n % HalfWord>>

Add32(a, b) ==
    LET lo == a[2] + b[2]
        hi == a[1] + b[1] + (lo \div HalfWord)
    IN  <<hi % HalfWord, lo % HalfWord>>

Sub32(a, b) ==
    LET lo == a[2] - b[2]
        hi == a[1] - b[1] - (IF lo < 0 THEN 1 ELSE 0)
    IN  <<(hi + 2 * HalfWord) % HalfWord, (lo + HalfWord) % HalfWord>>

\* a * k mod 2^32 for a small natural k
Mul32(a, k) ==
    LET lo == a[2] * k
        hi == a[1] * k + (lo \div HalfWord)
    IN  <<hi % HalfWord, lo % HalfWord>>

\* a / k for a small positive k
Div32(a, k) ==
    LET t == (a[1] % k) * HalfWord + a[2]
    IN  <<a[1] \div k, t \div k>>

Lt32(a, b) == a[1] < b[1] \/ (a[1] = b[1] /\ a[2] < b[2])
Le32(a, b) == a = b \/ Lt32(a, b)

\* the mathematical sum a + b is at most c (no wrap-around)
SumLe32(a, b, c) ==
    /\ a[1] + b[1] + ((a[2] + b[2]) \div HalfWord) < HalfWord
    /\ Le32(Add32(a, b), c)

\* ------------------------------------------------------------------------
\* State
\* ------------------------------------------------------------------------
VARIABLES
    pc,                   \* position of the running code
    g_fb_width,           \* framebuffer width (uint32_t)
    g_fb_height,          \* framebuffer height (uint32_t)
    g_workspaces,         \* workspace_t g_workspaces[WORKSPACE_COUNT]
    g_active_workspace,   \* index of the rendered workspace
    g_prev_positions,     \* snapshot: rectangles drawn by the last structural redraw
    g_prev_window_count,  \* snapshot: window count
    g_prev_layout,        \* snapshot: layout variant
    g_prev_focused,       \* snapshot: focus index
    last_call,            \* the entry point that ran last
    draw_log,             \* draw calls and snapshot stores issued by that entry point, in order
    calls,                \* hotkey callbacks delivered so far
    screen,               \* what the draw calls issued so far have left on the framebuffer
    call_args,            \* arguments of a direct compute_window_positions call
    positions             \* the caller's positions buffer after that call

vars == <<pc, g_fb_width, g_fb_height, g_workspaces, g_active_workspace,
          g_prev_positions, g_prev_window_count, g_prev_layout, g_prev_focused,
          last_call, draw_log, calls, screen, call_args, positions>>

\* ------------------------------------------------------------------------
\* Compiled-in layout table
\* ------------------------------------------------------------------------
DEFAULT_LAYOUTS(type) ==
    [type         |-> type,
     gap_size     |-> DEFAULT_GAP_SIZE,
     border_size  |-> DEFAULT_BORDER_SIZE,
     border_color |-> COLOR_BORDER_NORMAL,
     master_ratio |-> IF type = LAYOUT_MASTER_STACK
                      THEN MASTER_RATIO_MASTER_STACK
                      ELSE MASTER_RATIO_DEFAULT]

\* ------------------------------------------------------------------------
\* Layout engine
\* ------------------------------------------------------------------------
Rect(x, y, w, h) == [x |-> x, y |-> y, width |-> w, height |-> h]

calculate_horizontal_layout(count, gap, usable_height) ==
    LET window_width == Div32(Sub32(g_fb_width, U32(gap * (count + 1))), count)
    IN  [i \in 0..(count - 1) |->
            Rect(Add32(U32(gap), Mul32(Add32(window_width, U32(gap)), i)),
                 U32(TOP_BAR_HEIGHT + gap),
                 window_width,
                 Sub32(usable_height, U32(gap)))]

calculate_vertical_layout(count, gap, usable_height) ==
    LET window_height == Div32(Sub32(usable_height, U32(gap * (count + 1))), count)
    IN  [i \in 0..(count - 1) |->
            Rect(U32(gap),
                 Add32(U32(TOP_BAR_HEIGHT + gap),
                       Mul32(Add32(window_height, U32(gap)), i)),
                 Sub32(g_fb_width, U32(gap * 2)),
                 window_height)]

\* variant: the cells are filled column by column
calculate_grid_layout_column_major(count, gap, usable_height) ==
    LET cols == 2
        rows == (count + 1) \div 2
        cell_width == Div32(Sub32(g_fb_width, U32(gap * (cols + 1))), cols)
        cell_height == Div32(Sub32(usable_height, U32(gap * (rows + 1))), rows)
    IN  [i \in 0..(count - 1) |->
            LET col == i \div rows
                row == i % rows
            IN  Rect(Add32(U32(gap), Mul32(Add32(cell_width, U32(gap)), col)),
                     Add32(U32(TOP_BAR_HEIGHT + gap),
                           Mul32(Add32(cell_height, U32(gap)), row)),
                     cell_width,
                     cell_height)]

calculate_grid_layout(count, gap, usable_height) ==
    LET cols == 2
        rows == (count + 1) \div 2
        cell_width == Div32(Sub32(g_fb_width, U32(gap * (cols + 1))), cols)
        cell_height == Div32(Sub32(usable_height, U32(gap * (rows + 1))), rows)
    IN  [i \in 0..(count - 1) |->
            LET col == i % cols
                row == i \div cols
            IN  Rect(Add32(U32(gap), Mul32(Add32(cell_width, U32(gap)), col)),
                     Add32(U32(TOP_BAR_HEIGHT + gap),
                           Mul32(Add32(cell_height, U32(gap)), row)),
                     cell_width,
                     cell_height)]

calculate_fullscreen_layout(count, gap, usable_height) ==
    [i \in 0..(count - 1) |->
        Rect(U32(gap),
             U32(TOP_BAR_HEIGHT + gap),
             Sub32(g_fb_width, U32(gap * 2)),
             Sub32(usable_height, U32(gap)))]

\* variant: the stack width leaves out one of the three gaps
calculate_master_stack_layout_two_gaps(count, gap, usable_height, master_ratio) ==
    IF count = 1
    THEN [i \in 0..0 |->
            Rect(U32(gap),
                 U32(TOP_BAR_HEIGHT + gap),
                 Sub32(g_fb_width, U32(gap * 2)),
                 Sub32(usable_height, U32(gap)))]
    ELSE LET master_width ==
                 Sub32(Div32(Mul32(g_fb_width, master_ratio), 100), U32(gap * 2))
             stack_width ==
                 Sub32(Sub32(g_fb_width, master_width), U32(gap * 2))
             stack_count == count - 1
             stack_height ==
                 Div32(Sub32(usable_height, U32(gap * (stack_count + 1))), stack_count)
         IN  [i \in 0..(count - 1) |->
                 IF i = 0
                 THEN Rect(U32(gap),
                           U32(TOP_BAR_HEIGHT + gap),
                           master_width,
                           Sub32(usable_height, U32(gap)))
                 ELSE Rect(Add32(master_width, U32(gap * 2)),
                           Add32(U32(TOP_BAR_HEIGHT + gap),
                                 Mul32(Add32(stack_height, U32(gap)), i - 1)),
                           stack_width,
                           stack_height)]

calculate_master_stack_layout(count, gap, usable_height, master_ratio) ==
    IF count = 1
    THEN [i \in 0..0 |->
            Rect(U32(gap),
                 U32(TOP_BAR_HEIGHT + gap),
                 Sub32(g_fb_width, U32(gap * 2)),
                 Sub32(usable_height, U32(gap)))]
    ELSE LET master_width ==
                 Sub32(Div32(Mul32(g_fb_width, master_ratio), 100), U32(gap * 2))
             stack_width ==
                 Sub32(Sub32(g_fb_width, master_width), U32(gap * 3))
             stack_count == count - 1
             stack_height ==
                 Div32(Sub32(usable_height, U32(gap * (stack_count + 1))), stack_count)
         IN  [i \in 0..(count - 1) |->
                 IF i = 0
                 THEN Rect(U32(gap),
                           U32(TOP_BAR_HEIGHT + gap),
                           master_width,
                           Sub32(usable_height, U32(gap)))
                 ELSE Rect(Add32(master_width, U32(gap * 2)),
                           Add32(U32(TOP_BAR_HEIGHT + gap),
                                 Mul32(Add32(stack_height, U32(gap)), i - 1)),
                           stack_width,
                           stack_height)]

\* variant: the top bar is not subtracted from the usable height
compute_window_positions_no_bar(count, config) ==
    LET gap == config.gap_size
        usable_height == Sub32(g_fb_height, U32(gap))
    IN  IF count = 0 THEN << >>
        ELSE CASE config.type = LAYOUT_HORIZONTAL ->
                    calculate_horizontal_layout(count, gap, usable_height)
               [] config.type = LAYOUT_VERTICAL ->
                    calculate_vertical_layout(count, gap, usable_height)
               [] config.type = LAYOUT_GRID ->
                    calculate_grid_layout(count, gap, usable_height)
               [] config.type = LAYOUT_FULLSCREEN ->
                    calculate_fullscreen_layout(count, gap, usable_height)
               [] OTHER ->
                    calculate_master_stack_layout(count, gap, usable_height,
                                                  config.master_ratio)

compute_window_positions(count, config) ==
    LET gap == config.gap_size
        usable_height == Sub32(Sub32(g_fb_height, U32(TOP_BAR_HEIGHT)), U32(gap))
        cleared == [i \in 0..(count - 1) |-> Rect(U32(0), U32(TOP_BAR_HEIGHT), U32(0), U32(0))]
    IN  IF count = 0 THEN cleared
        ELSE CASE config.type = LAYOUT_HORIZONTAL ->
                    calculate_horizontal_layout(count, gap, usable_height)
               [] config.type = LAYOUT_VERTICAL ->
                    calculate_vertical_layout(count, gap, usable_height)
               [] config.type = LAYOUT_GRID ->
                    calculate_grid_layout(count, gap, usable_height)
               [] config.type = LAYOUT_FULLSCREEN ->
                    calculate_fullscreen_layout(count, gap, usable_height)
               [] config.type = LAYOUT_MASTER_STACK ->
                    calculate_master_stack_layout(count, gap, usable_height,
                                                  config.master_ratio)
               [] OTHER -> cleared

\* ------------------------------------------------------------------------
\* Drawing calls, recorded in the order they are issued
\* ------------------------------------------------------------------------
\* fill_rect over a snapshot rectangle with the background colour
erase_rect(p) ==
    [call |-> "fill_rect", x |-> p.x, y |-> p.y, width |-> p.width,
     height |-> p.height, color |-> COLOR_BAR_BG]

draw_window_frame(index, position, border_size, border_color, is_focused) ==
    [call         |-> "draw_window_frame",
     index        |-> index,
     position     |-> Rect(position.x, position.y, position.width, position.height),
     border       |-> IF is_focused
                      THEN border_size * FOCUSED_BORDER_MULTIPLIER
                      ELSE border_size,
     border_color |-> border_color,
     is_focused   |-> is_focused]

draw_empty_desktop_indicator ==
    [call |-> "draw_empty_desktop_indicator", color |-> COLOR_EMPTY_DESKTOP]

\* an assignment to a field of the previous-frame snapshot
store(target, index) == [call |-> "store", target |-> target, index |-> index]

\* ------------------------------------------------------------------------
\* Redraw differ
\* ------------------------------------------------------------------------
Slots == 0..(MAX_WINDOWS_PER_WORKSPACE - 1)

\* no frame has been drawn for a window index yet
NoFrame ==
    [drawn |-> FALSE, position |-> Rect(U32(0), U32(0), U32(0), U32(0)),
     border |-> 0, is_focused |-> FALSE]

\* the framebuffer after clear_screen: per window index the frame drawn for
\* it last, and whether the empty-desktop indicator is the last thing drawn
BlankScreen == [frames |-> [i \in Slots |-> NoFrame], indicator |-> FALSE]

\* the effect of one draw call on the framebuffer
paint(scr, event) ==
    IF event.call = "draw_window_frame"
    THEN [frames    |-> [i \in Slots |->
                           IF i = event.index
                           THEN [drawn      |-> TRUE,
                                 position   |-> event.position,
                                 border     |-> event.border,
                                 is_focused |-> event.is_focused]
                           ELSE scr.frames[i]],
          indicator |-> FALSE]
    ELSE IF event.call = "draw_empty_desktop_indicator"
         THEN [scr EXCEPT !.indicator = TRUE]
         ELSE scr

\* the effect of the draw calls of log, in order
RECURSIVE paint_all(_, _)
paint_all(scr, log) ==
    IF log = << >> THEN scr
    ELSE paint_all(paint(scr, Head(log)), Tail(log))

Snapshot ==
    [positions    |-> g_prev_positions,
     window_count |-> g_prev_window_count,
     layout       |-> g_prev_layout,
     focused      |-> g_prev_focused]

\* positions[i] with positions[i].pid set
WithPid(r, pid) ==
    [x |-> r.x, y |-> r.y, width |-> r.width, height |-> r.height, pid |-> pid]

\* an element of the local positions array that compute_window_positions left
\* unwritten: its content is indeterminate
Indeterminate == [x |-> "?", y |-> "?", width |-> "?", height |-> "?"]

Element(arr, i) == IF i \in DOMAIN arr THEN arr[i] ELSE Indeterminate

\* variant: the erase loop runs over the current window count
redraw_structural_erase_current(ws, prev) ==
    LET n == ws.window_count
        pos == compute_window_positions(n, ws.layout)
        erases == [k \in 1..n |-> erase_rect(prev.positions[k - 1])]
        frames == [k \in 1..(2 * n) |->
                     LET i == (k - 1) \div 2
                     IN  IF k % 2 = 1
                         THEN draw_window_frame(i, pos[i], ws.layout.border_size,
                                                ws.layout.border_color,
                                                i = ws.focused_window_index)
                         ELSE store("g_prev_positions", i)]
        drawn == IF n = 0 THEN <<draw_empty_desktop_indicator>> ELSE frames
    IN  [positions    |-> [i \in Slots |->
                              IF i < n
                              THEN WithPid(pos[i], ws.windows[i].pid)
                              ELSE prev.positions[i]],
         window_count |-> n,
         layout       |-> ws.layout.type,
         focused      |-> ws.focused_window_index,
         log          |-> erases \o drawn \o
                          <<store("g_prev_window_count", 0),
                            store("g_prev_layout", 0),
                            store("g_prev_focused", 0)>>]

\* lines 337-363
redraw_structural(ws, prev) ==
    LET n == ws.window_count
        pos == compute_window_positions(n, ws.layout)
        erases == [k \in 1..prev.window_count |-> erase_rect(prev.positions[k - 1])]
        frames == [k \in 1..(2 * n) |->
                     LET i == (k - 1) \div 2
                     IN  IF k % 2 = 1
                         THEN draw_window_frame(i, pos[i], ws.layout.border_size,
                                                ws.layout.border_color,
                                                i = ws.focused_window_index)
                         ELSE store("g_prev_positions", i)]
        drawn == IF n = 0 THEN <<draw_empty_desktop_indicator>> ELSE frames
    IN  [positions    |-> [i \in Slots |->
                              IF i < n
                              THEN WithPid(pos[i], ws.windows[i].pid)
                              ELSE prev.positions[i]],
         window_count |-> n,
         layout       |-> ws.layout.type,
         focused      |-> ws.focused_window_index,
         log          |-> erases \o drawn \o
                          <<store("g_prev_window_count", 0),
                            store("g_prev_layout", 0),
                            store("g_prev_focused", 0)>>]

\* variant: the old focus is not redrawn with the plain border
redraw_focus_new_only(ws, prev) ==
    LET pos == compute_window_positions(ws.window_count, ws.layout)
    IN  [positions    |-> prev.positions,
         window_count |-> prev.window_count,
         layout       |-> prev.layout,
         focused      |-> ws.focused_window_index,
         log          |-> <<draw_window_frame(ws.focused_window_index,
                                              Element(pos, ws.focused_window_index),
                                              ws.layout.border_size,
                                              ws.layout.border_color, TRUE),
                            store("g_prev_focused", 0)>>]

\* variant: the snapshot's focus index is not updated
redraw_focus_keep_snapshot(ws, prev) ==
    LET pos == compute_window_positions(ws.window_count, ws.layout)
    IN  [positions    |-> prev.positions,
         window_count |-> prev.window_count,
         layout       |-> prev.layout,
         focused      |-> prev.focused,
         log          |-> <<draw_window_frame(prev.focused, Element(pos, prev.focused),
                                              ws.layout.border_size,
                                              ws.layout.border_color, FALSE),
                            draw_window_frame(ws.focused_window_index,
                                              Element(pos, ws.focused_window_index),
                                              ws.layout.border_size,
                                              ws.layout.border_color, TRUE)>>]

\* lines 365-376
redraw_focus(ws, prev) ==
    LET pos == compute_window_positions(ws.window_count, ws.layout)
    IN  [positions    |-> prev.positions,
         window_count |-> prev.window_count,
         layout       |-> prev.layout,
         focused      |-> ws.focused_window_index,
         log          |-> <<draw_window_frame(prev.focused, Element(pos, prev.focused),
                                              ws.layout.border_size,
                                              ws.layout.border_color, FALSE),
                            draw_window_frame(ws.focused_window_index,
                                              Element(pos, ws.focused_window_index),
                                              ws.layout.border_size,
                                              ws.layout.border_color, TRUE),
                            store("g_prev_focused", 0)>>]

\* variant: a focus change is treated as a structural change
redraw_incremental_focus_is_structural(ws, prev) ==
    IF \/ ws.window_count # prev.window_count
       \/ ws.layout.type # prev.layout
       \/ ws.focused_window_index # prev.focused
    THEN redraw_structural(ws, prev)
    ELSE [positions    |-> prev.positions,
          window_count |-> prev.window_count,
          layout       |-> prev.layout,
          focused      |-> prev.focused,
          log          |-> << >>]

\* variant: without a structural change the focus path always runs
redraw_incremental_unconditional_focus(ws, prev) ==
    IF ws.window_count # prev.window_count \/ ws.layout.type # prev.layout
    THEN redraw_structural(ws, prev)
    ELSE redraw_focus(ws, prev)

redraw_incremental(ws, prev) ==
    IF ws.window_count # prev.window_count \/ ws.layout.type # prev.layout
    THEN redraw_structural(ws, prev)
    ELSE IF ws.focused_window_index # prev.focused
    THEN redraw_focus(ws, prev)
    ELSE [positions    |-> prev.positions,
          window_count |-> prev.window_count,
          layout       |-> prev.layout,
          focused      |-> prev.focused,
          log          |-> << >>]

\* ------------------------------------------------------------------------
\* Workspace store: the state changes of each operation
\* ------------------------------------------------------------------------
initialize_workspaces(wss) ==
    [w \in DOMAIN wss |->
        [wss[w] EXCEPT
            !.window_count = 0,
            !.layout = DEFAULT_LAYOUTS(LAYOUT_GRID),
            !.focused_window_index = 0,
            !.windows = [j \in Slots |->
                            [@[j] EXCEPT !.is_open = 0, !.title = ""]]]]

\* variant: the new window does not receive the focus
append_window_keep_focus(ws, title) ==
    LET n == ws.window_count
    IN  [ws EXCEPT
            !.windows[n] = [title |-> title, pid |-> n, is_open |-> 1],
            !.window_count = n + 1]

\* lines 400-405
append_window(ws, title) ==
    LET n == ws.window_count
    IN  [ws EXCEPT
            !.windows[n] = [title |-> title, pid |-> n, is_open |-> 1],
            !.window_count = n + 1,
            !.focused_window_index = (n + 1) - 1]

\* variant: the shift starts at slot 0 instead of the focused slot
remove_first(ws) ==
    LET focused == ws.focused_window_index
        n == ws.window_count
    IN  [ws EXCEPT
            !.windows = [i \in Slots |-> IF i < n - 1 THEN @[i + 1] ELSE @[i]],
            !.window_count = n - 1,
            !.focused_window_index =
                IF n - 1 = 0 THEN 0
                ELSE IF focused >= n - 1 THEN (n - 1) - 1
                ELSE @]

\* variant: the focus is not moved back when the last window is closed
remove_focused_no_clamp(ws) ==
    LET focused == ws.focused_window_index
        n == ws.window_count
    IN  [ws EXCEPT
            !.windows = [i \in Slots |->
                            IF i >= focused /\ i < n - 1 THEN @[i + 1] ELSE @[i]],
            !.window_count = n - 1,
            !.focused_window_index = IF n - 1 = 0 THEN 0 ELSE @]

\* lines 413-423
remove_focused(ws) ==
    LET focused == ws.focused_window_index
        n == ws.window_count
    IN  [ws EXCEPT
            !.windows = [i \in Slots |->
                            IF i >= focused /\ i < n - 1 THEN @[i + 1] ELSE @[i]],
            !.window_count = n - 1,
            !.focused_window_index =
                IF n - 1 = 0 THEN 0
                ELSE IF focused >= n - 1 THEN (n - 1) - 1
                ELSE @]

\* variant: the direction is ignored and the focus always advances
move_focus_forward_only(ws, direction) ==
    [ws EXCEPT !.focused_window_index = (@ + 1) % ws.window_count]

\* lines 432-436
move_focus(ws, direction) ==
    [ws EXCEPT
        !.focused_window_index =
            IF direction > 0
            THEN (@ + 1) % ws.window_count
            ELSE (@ + ws.window_count - 1) % ws.window_count]

\* variant: only the variant tag advances, the configuration is kept
next_layout_keep_config(ws) ==
    [ws EXCEPT !.layout.type = (@ + 1) % LAYOUT_COUNT]

\* lines 442-444
next_layout(ws) ==
    LET current == ws.layout.type
        next == (current + 1) % LAYOUT_COUNT
    IN  [ws EXCEPT !.layout = DEFAULT_LAYOUTS(next)]

\* ------------------------------------------------------------------------
\* Entry points
\* ------------------------------------------------------------------------
Directions == {-1, 1}

FbEdges(span) == MinFb..(MinFb + span)

ActiveWs == g_workspaces[g_active_workspace]

\* args is the tuple of arguments the entry point was called with
Called(fn, args, redraw) == [fn |-> fn, args |-> args, redraw |-> redraw]

\* the entry point returns before touching anything
Returned(fn, args) ==
    /\ calls < MaxCalls
    /\ calls' = calls + 1
    /\ last_call' = Called(fn, args, FALSE)
    /\ draw_log' = << >>
    /\ UNCHANGED <<pc, g_fb_width, g_fb_height, g_workspaces, g_active_workspace,
                   g_prev_positions, g_prev_window_count, g_prev_layout,
                   g_prev_focused, screen, call_args, positions>>

\* the entry point commits ws to the active slot and calls redraw_incremental
Committed(fn, args, ws) ==
    LET r == redraw_incremental(ws, Snapshot)
    IN  /\ calls < MaxCalls
        /\ calls' = calls + 1
        /\ g_workspaces' = [g_workspaces EXCEPT ![g_active_workspace] = ws]
        /\ g_prev_positions' = r.positions
        /\ g_prev_window_count' = r.window_count
        /\ g_prev_layout' = r.layout
        /\ g_prev_focused' = r.focused
        /\ last_call' = Called(fn, args, TRUE)
        /\ draw_log' = r.log
        /\ screen' = paint_all(screen, r.log)
        /\ UNCHANGED <<pc, g_fb_width, g_fb_height, g_active_workspace,
                       call_args, positions>>

\* _start, lines 476-497.  clear_screen runs while the framebuffer dimensions
\* are still 0 and fills nothing; the window count is 0 when redraw_incremental
\* runs, so no geometry is computed from the dimensions fetched here.
\* get_fb_dimensions reports the smallest framebuffer, MinFb x MinFb; other
\* sizes are covered by LayoutSpec.
start ==
    /\ pc = "start"
    /\ g_fb_width' = U32(MinFb)
    /\ g_fb_height' = U32(MinFb)
    /\ LET wss == initialize_workspaces(g_workspaces)
           r == redraw_incremental(wss[g_active_workspace],
                                   [positions    |-> g_prev_positions,
                                    window_count |-> 0,
                                    layout       |-> LAYOUT_GRID,
                                    focused      |-> 0])
       IN  /\ g_workspaces' = wss
           /\ g_prev_positions' = r.positions
           /\ g_prev_window_count' = r.window_count
           /\ g_prev_layout' = r.layout
           /\ g_prev_focused' = r.focused
           /\ draw_log' = r.log
           /\ screen' = paint_all(BlankScreen, r.log)
    /\ last_call' = Called("_start", << >>, TRUE)
    /\ pc' = "running"
    /\ UNCHANGED <<g_active_workspace, calls, call_args, positions>>

\* variant: at capacity only the slot write is skipped; the focus is still
\* moved to the last window and the redraw still runs
add_window_focus_before_guard(title) ==
    /\ pc = "running"
    /\ IF ActiveWs.window_count >= MAX_WINDOWS_PER_WORKSPACE
       THEN Committed("add_window_to_current_workspace", <<title>>,
                      [ActiveWs EXCEPT
                          !.focused_window_index = ActiveWs.window_count - 1])
       ELSE Committed("add_window_to_current_workspace", <<title>>,
                      append_window(ActiveWs, title))

add_window_to_current_workspace(title) ==
    /\ pc = "running"
    /\ IF ActiveWs.window_count >= MAX_WINDOWS_PER_WORKSPACE
       THEN Returned("add_window_to_current_workspace", <<title>>)
       ELSE Committed("add_window_to_current_workspace", <<title>>,
                      append_window(ActiveWs, title))

close_current_window ==
    /\ pc = "running"
    /\ IF ActiveWs.window_count = 0
       THEN Returned("close_current_window", << >>)
       ELSE Committed("close_current_window", << >>, remove_focused(ActiveWs))

cycle_focus(direction) ==
    /\ pc = "running"
    /\ IF ActiveWs.window_count = 0
       THEN Returned("cycle_focus", <<direction>>)
       ELSE Committed("cycle_focus", <<direction>>, move_focus(ActiveWs, direction))

cycle_layout ==
    /\ pc = "running"
    /\ Committed("cycle_layout", << >>, next_layout(ActiveWs))

\* on_new_window, line 464
on_new_window == add_window_to_current_workspace("template")

\* ------------------------------------------------------------------------
\* Specification of the window manager
\* ------------------------------------------------------------------------
ZeroRect == [x |-> U32(0), y |-> U32(0), width |-> U32(0), height |-> U32(0), pid |-> 0]

ZeroWorkspace ==
    [windows |-> [j \in Slots |-> [title |-> "", pid |-> 0, is_open |-> 0]],
     window_count |-> 0,
     layout |-> [type |-> 0, gap_size |-> 0, border_size |-> 0,
                 border_color |-> 0, master_ratio |-> 0],
     focused_window_index |-> 0]

NoCall == [count |-> 0, config |-> DEFAULT_LAYOUTS(LAYOUT_GRID)]

\* static storage before _start runs
Init ==
    /\ pc = "start"
    /\ g_fb_width = U32(0)
    /\ g_fb_height = U32(0)
    /\ g_workspaces = [w \in 0..(WORKSPACE_COUNT - 1) |-> ZeroWorkspace]
    /\ g_active_workspace = 0
    /\ g_prev_positions = [i \in Slots |-> ZeroRect]
    /\ g_prev_window_count = 0
    /\ g_prev_layout = LAYOUT_GRID
    /\ g_prev_focused = 0
    /\ last_call = Called("", << >>, FALSE)
    /\ draw_log = << >>
    /\ calls = 0
    /\ screen = BlankScreen
    /\ call_args = NoCall
    /\ positions = << >>

Next ==
    \/ start
    \/ on_new_window
    \/ close_current_window
    \/ \E direction \in Directions : cycle_focus(direction)
    \/ cycle_layout

Spec == Init /\ [][Next]_vars

\* ------------------------------------------------------------------------
\* Specification of the layout engine called on its own
\* ------------------------------------------------------------------------
\* framebuffer edges tried: the small ones, and the largest uint32_t values
\* for which g_fb_width * master_ratio does and does not fit in 32 bits
FbWidths ==
    {U32(n) : n \in FbEdges(FbSpan)} \cup
    {U32(71582788), U32(71582789), <<HalfWord - 1, HalfWord - 1>>}

FbHeights ==
    {U32(n) : n \in FbEdges(FbSpan)} \cup {<<HalfWord - 1, HalfWord - 1>>}

LayoutInit ==
    /\ pc = "call"
    /\ g_fb_width \in FbWidths
    /\ g_fb_height \in FbHeights
    /\ call_args \in [count : 0..MAX_WINDOWS_PER_WORKSPACE,
                      config : {DEFAULT_LAYOUTS(t) : t \in 0..(LAYOUT_COUNT - 1)}]
    /\ positions = << >>
    /\ g_workspaces =
          initialize_workspaces([w \in 0..(WORKSPACE_COUNT - 1) |-> ZeroWorkspace])
    /\ g_active_workspace = 0
    /\ g_prev_positions = [i \in Slots |-> ZeroRect]
    /\ g_prev_window_count = 0
    /\ g_prev_layout = LAYOUT_GRID
    /\ g_prev_focused = 0
    /\ last_call = Called("_start", << >>, TRUE)
    /\ draw_log = << >>
    /\ calls = 0
    /\ screen = BlankScreen

call_compute_window_positions ==
    /\ pc = "call"
    /\ positions' = compute_window_positions(call_args.count, call_args.config)
    /\ pc' = "return"
    /\ UNCHANGED <<g_fb_width, g_fb_height, g_workspaces, g_active_workspace,
                   g_prev_positions, g_prev_window_count, g_prev_layout,
                   g_prev_focused, last_call, draw_log, calls, screen, call_args>>

LayoutNext == call_compute_window_positions

LayoutSpec == LayoutInit /\ [][LayoutNext]_vars

\* ------------------------------------------------------------------------
\* Properties
\* ------------------------------------------------------------------------
\* g_fb_width * ratio computed without wrap-around
ProductFits(w, ratio) == w[1] * ratio + ((w[2] * ratio) \div HalfWord) < HalfWord

\* r has positive size and lies inside the screen below the top bar
InsideScreen(r) ==
    /\ Lt32(U32(0), r.width)
    /\ Lt32(U32(0), r.height)
    /\ Le32(U32(0), r.x)
    /\ SumLe32(r.x, r.width, g_fb_width)
    /\ Le32(U32(TOP_BAR_HEIGHT), r.y)
    /\ SumLe32(r.y, r.height, g_fb_height)

Computed == pc = "return" /\ call_args.count >= 1

AllInside ==
    /\ DOMAIN positions = 0..(call_args.count - 1)
    /\ \A i \in DOMAIN positions : InsideScreen(positions[i])

\* C10 as stated: for every count in 1..6, every variant with its default
\* configuration and every framebuffer of at least 64x64, the call yields
\* exactly count rectangles, each of positive size and inside the screen
\* below the top bar.
C10_AllInside_AnyFramebuffer == Computed => AllInside

\* C10 amended: the same, provided that for Master-Stack with more than one
\* window g_fb_width * master_ratio fits in 32 bits (g_fb_width <= 71582788).
C10_AllInside_WhenProductFits ==
    (/\ Computed
     /\ \/ call_args.config.type # LAYOUT_MASTER_STACK
        \/ call_args.count = 1
        \/ ProductFits(g_fb_width, call_args.config.master_ratio))
    => AllInside

C10_Witness ==
    /\ Computed
    /\ call_args.count = MAX_WINDOWS_PER_WORKSPACE
    /\ call_args.config.type = LAYOUT_MASTER_STACK
    /\ g_fb_width = U32(71582788)
    /\ g_fb_height = U32(MinFb)
    /\ AllInside

\* ------------------------------------------------------------------------
\* Steps of the window manager
\* ------------------------------------------------------------------------
\* this step is a call of entry point fn
Step(fn) == calls' = calls + 1 /\ last_call'.fn = fn

\* this step ran redraw_incremental: it saw ActiveWs' and the unprimed snapshot
RedrawStep == last_call'.redraw /\ (calls' = calls + 1 \/ pc' # pc)

SnapshotVars == <<g_prev_positions, g_prev_window_count, g_prev_layout, g_prev_focused>>

Ran(fn) == pc = "running" /\ last_call.fn = fn

\* C1: in every reachable state every workspace holds at most 6 windows and,
\* when it holds any, its focus index is a valid index: 0 <= focus < count.
C1_FocusInRange ==
    \A w \in DOMAIN g_workspaces :
        LET ws == g_workspaces[w]
        IN  /\ ws.window_count <= MAX_WINDOWS_PER_WORKSPACE
            /\ ws.window_count > 0 =>
                  /\ 0 <= ws.focused_window_index
                  /\ ws.focused_window_index < ws.window_count

\* the last window of a full workspace was closed and the focus followed
C1_Witness ==
    /\ Ran("close_current_window")
    /\ ActiveWs.window_count = MAX_WINDOWS_PER_WORKSPACE - 1
    /\ ActiveWs.focused_window_index = MAX_WINDOWS_PER_WORKSPACE - 2

\* C2: close_current_window on n >= 1 windows with focus f removes the window
\* at index f, keeps the survivors in order (i < f stays, i > f moves to i-1),
\* leaves n-1 windows, and sets the focus to 0 if n-1 = 0, to n-2 if f >= n-1,
\* and leaves it at f otherwise.
C2_CloseCompacts ==
    [][(Step("close_current_window") /\ ActiveWs.window_count >= 1) =>
          LET n == ActiveWs.window_count
              f == ActiveWs.focused_window_index
          IN  /\ ActiveWs'.window_count = n - 1
              /\ \A i \in 0..(n - 2) :
                    ActiveWs'.windows[i] =
                        IF i < f THEN ActiveWs.windows[i] ELSE ActiveWs.windows[i + 1]
              /\ ActiveWs'.focused_window_index =
                    IF n - 1 = 0 THEN 0
                    ELSE IF f >= n - 1 THEN n - 2
                    ELSE f]_vars

\* three windows 0,1,2 with focus 1: the middle one was closed
C2_Witness ==
    /\ Ran("close_current_window")
    /\ ActiveWs.window_count = 2
    /\ ActiveWs.focused_window_index = 1
    /\ ActiveWs.windows[0].pid = 0
    /\ ActiveWs.windows[1].pid = 2
    /\ g_prev_window_count = 2

\* C3: add on a workspace of 6 windows, and close or cycle_focus on an empty
\* workspace, change neither the workspaces nor the snapshot and issue no draw
\* call (redraw_incremental is not called).
C3_NoOpOutsideDomain ==
    [][(\/ Step("add_window_to_current_workspace")
           /\ ActiveWs.window_count = MAX_WINDOWS_PER_WORKSPACE
        \/ Step("close_current_window") /\ ActiveWs.window_count = 0
        \/ Step("cycle_focus") /\ ActiveWs.window_count = 0) =>
          /\ UNCHANGED <<g_workspaces, g_active_workspace>>
          /\ UNCHANGED SnapshotVars
          /\ draw_log' = << >>
          /\ ~last_call'.redraw]_vars

\* add was called on a full workspace whose focus is not on the last window
C3_Witness ==
    /\ Ran("add_window_to_current_workspace")
    /\ ~last_call.redraw
    /\ ActiveWs.window_count = MAX_WINDOWS_PER_WORKSPACE
    /\ ActiveWs.focused_window_index = 0
    /\ draw_log = << >>

\* ------------------------------------------------------------------------
\* Reading the draw log
\* ------------------------------------------------------------------------
CallsOf(log, call) == {k \in 1..Len(log) : log[k].call = call}

Erases(log) == CallsOf(log, "fill_rect")
Frames(log) == CallsOf(log, "draw_window_frame")
Indicators(log) == CallsOf(log, "draw_empty_desktop_indicator")
Stores(log) == CallsOf(log, "store")

DrawCalls(log) == Erases(log) \cup Frames(log) \cup Indicators(log)

StoresTo(log, target) == {k \in Stores(log) : log[k].target = target}

\* g_prev_window_count is assigned on the structural path only
TookStructuralPath(log) == StoresTo(log, "g_prev_window_count") # {}

\* the frame drawn for index i of workspace ws, as the layout engine places it
FrameOf(ws, i, is_focused) ==
    [call         |-> "draw_window_frame",
     index        |-> i,
     position     |-> compute_window_positions(ws.window_count, ws.layout)[i],
     border       |-> IF is_focused THEN 3 * ws.layout.border_size
                      ELSE ws.layout.border_size,
     border_color |-> ws.layout.border_color,
     is_focused   |-> is_focused]

\* C4: add on n < 6 windows keeps windows 0..n-1, puts the new window at index
\* n with pid n and is_open 1, sets the count to n+1 and the focus to n, and
\* the redraw it triggers takes the structural path.
C4_AddAppends ==
    [][(/\ Step("add_window_to_current_workspace")
        /\ ActiveWs.window_count < MAX_WINDOWS_PER_WORKSPACE) =>
          LET n == ActiveWs.window_count
          IN  /\ \A i \in 0..(n - 1) : ActiveWs'.windows[i] = ActiveWs.windows[i]
              /\ ActiveWs'.windows[n].pid = n
              /\ ActiveWs'.windows[n].is_open = 1
              /\ ActiveWs'.window_count = n + 1
              /\ ActiveWs'.focused_window_index = n
              /\ last_call'.redraw
              /\ TookStructuralPath(draw_log')
              /\ Cardinality(Frames(draw_log')) = n + 1]_vars

\* a window was added while the focus was on the first of three windows
C4_Witness ==
    /\ Ran("add_window_to_current_workspace")
    /\ last_call.redraw
    /\ ActiveWs.window_count = 4
    /\ ActiveWs.focused_window_index = 3
    /\ ActiveWs.windows[3].pid = 3
    /\ ActiveWs.windows[0].pid = 1
    /\ TookStructuralPath(draw_log)

RECURSIVE MoveFocusTimes(_, _, _)
MoveFocusTimes(ws, direction, k) ==
    IF k = 0 THEN ws ELSE MoveFocusTimes(move_focus(ws, direction), direction, k - 1)

\* C5: on a non-empty workspace cycle_focus(+1) sets the focus to
\* (focus+1) mod count and cycle_focus(-1) to (focus+count-1) mod count, and
\* changes nothing else of the workspace; one window keeps focus 0, +1 from the
\* last index wraps to 0, the opposite call restores the focus, and count
\* calls of +1 return to the starting focus.
C5_CycleFocusCircular ==
    [][(Step("cycle_focus") /\ ActiveWs.window_count > 0) =>
          LET n == ActiveWs.window_count
              f == ActiveWs.focused_window_index
              d == last_call'.args[1]
          IN  /\ ActiveWs'.focused_window_index =
                    IF d = 1 THEN (f + 1) % n ELSE (f + n - 1) % n
              /\ ActiveWs'.windows = ActiveWs.windows
              /\ ActiveWs'.window_count = n
              /\ ActiveWs'.layout = ActiveWs.layout
              /\ n = 1 => ActiveWs'.focused_window_index = 0
              /\ (d = 1 /\ f = n - 1) => ActiveWs'.focused_window_index = 0
              /\ move_focus(ActiveWs', 0 - d) = ActiveWs
              /\ MoveFocusTimes(ActiveWs, 1, n) = ActiveWs]_vars

\* cycle_focus(+1) wrapped from the last of four windows to the first
C5_Witness ==
    /\ Ran("cycle_focus")
    /\ last_call.args = <<1>>
    /\ ActiveWs.window_count = 4
    /\ ActiveWs.focused_window_index = 0
    /\ Cardinality(Frames(draw_log)) = 2
    /\ draw_log[1].index = 3

RECURSIVE NextLayoutTimes(_, _)
NextLayoutTimes(ws, k) ==
    IF k = 0 THEN ws ELSE NextLayoutTimes(next_layout(ws), k - 1)

LayoutOrder ==
    <<LAYOUT_HORIZONTAL, LAYOUT_VERTICAL, LAYOUT_GRID, LAYOUT_FULLSCREEN,
      LAYOUT_MASTER_STACK, LAYOUT_HORIZONTAL>>

HasDefaultConfig(ws) ==
    /\ ws.layout.gap_size = DEFAULT_GAP_SIZE
    /\ ws.layout.border_size = DEFAULT_BORDER_SIZE
    /\ ws.layout.border_color = COLOR_BORDER_NORMAL
    /\ ws.layout.master_ratio = IF ws.layout.type = LAYOUT_MASTER_STACK
                                THEN MASTER_RATIO_MASTER_STACK
                                ELSE MASTER_RATIO_DEFAULT

\* C6: cycle_layout moves the variant one place along Horizontal, Vertical,
\* Grid, Fullscreen, Master-Stack, Horizontal and keeps windows, count and
\* focus; 5 calls return to the variant; and once the workspaces are
\* initialised every workspace carries the default gap, border size, border
\* colour and master ratio of its variant.
C6_CycleLayoutDefaults ==
    /\ [][Step("cycle_layout") =>
             /\ \E k \in 1..LAYOUT_COUNT :
                   /\ LayoutOrder[k] = ActiveWs.layout.type
                   /\ LayoutOrder[k + 1] = ActiveWs'.layout.type
             /\ HasDefaultConfig(ActiveWs')
             /\ ActiveWs'.windows = ActiveWs.windows
             /\ ActiveWs'.window_count = ActiveWs.window_count
             /\ ActiveWs'.focused_window_index = ActiveWs.focused_window_index
             /\ NextLayoutTimes(ActiveWs, LAYOUT_COUNT) = ActiveWs]_vars
    /\ [](pc = "running" =>
             \A w \in DOMAIN g_workspaces : HasDefaultConfig(g_workspaces[w]))

\* cycle_layout switched a workspace of two windows to Master-Stack
C6_Witness ==
    /\ Ran("cycle_layout")
    /\ ActiveWs.layout.type = LAYOUT_MASTER_STACK
    /\ ActiveWs.layout.master_ratio = MASTER_RATIO_MASTER_STACK
    /\ ActiveWs.window_count = 2
    /\ g_prev_layout = LAYOUT_MASTER_STACK

\* redraw_incremental sees the workspace after the mutation (ActiveWs') and
\* the snapshot before the step
SeesStructuralChange ==
    \/ ActiveWs'.window_count # g_prev_window_count
    \/ ActiveWs'.layout.type # g_prev_layout

SeesFocusChange == ActiveWs'.focused_window_index # g_prev_focused

\* C7: when redraw_incremental runs with count and variant equal to the
\* snapshot's and a different focus index, it erases nothing, draws exactly
\* two frames - the previously focused index with the plain border, then the
\* newly focused index with the focused border - and changes of the snapshot
\* only the focus index.
C7_FocusOnlyPath ==
    [][(RedrawStep /\ ~SeesStructuralChange /\ SeesFocusChange) =>
          /\ ~TookStructuralPath(draw_log')
          /\ Erases(draw_log') = {}
          /\ Indicators(draw_log') = {}
          /\ Frames(draw_log') = {1, 2}
          /\ draw_log'[1] = FrameOf(ActiveWs', g_prev_focused, FALSE)
          /\ draw_log'[1].border = ActiveWs'.layout.border_size
          /\ draw_log'[2] = FrameOf(ActiveWs', ActiveWs'.focused_window_index, TRUE)
          /\ draw_log'[2].border =
                ActiveWs'.layout.border_size * FOCUSED_BORDER_MULTIPLIER
          /\ Stores(draw_log') = StoresTo(draw_log', "g_prev_focused")
          /\ g_prev_focused' = ActiveWs'.focused_window_index
          /\ UNCHANGED <<g_prev_window_count, g_prev_layout, g_prev_positions>>]_vars

\* cycle_focus(-1) moved the focus of three windows from 2 to 1
C7_Witness ==
    /\ Ran("cycle_focus")
    /\ last_call.args = <<-1>>
    /\ ActiveWs.window_count = 3
    /\ ActiveWs.focused_window_index = 1
    /\ g_prev_focused = 1
    /\ Len(draw_log) = 3
    /\ draw_log[1].index = 2
    /\ ~draw_log[1].is_focused
    /\ draw_log[2].index = 1
    /\ draw_log[2].is_focused

\* C8: when redraw_incremental runs with (count, variant) different from the
\* snapshot's, it first erases every snapshot rectangle 0..snapshot count-1,
\* then draws the indicator if the count is 0 and otherwise one frame per
\* window in index order at the computed geometry, and at the end the
\* snapshot's count, variant, focus and rectangles 0..count-1 are the current
\* ones.
C8_StructuralPath ==
    [][(RedrawStep /\ SeesStructuralChange) =>
          LET log == draw_log'
              ws == ActiveWs'
              n == ws.window_count
              old == g_prev_window_count
              drawn == [k \in 1..(Len(log) - old) |-> log[old + k]]
          IN  /\ Erases(log) = 1..old
              /\ \A k \in 1..old : log[k] = erase_rect(g_prev_positions[k - 1])
              /\ \A k \in Frames(log) \cup Indicators(log) : k > old
              /\ IF n = 0
                 THEN /\ Indicators(log) = {old + 1}
                      /\ Frames(log) = {}
                 ELSE /\ Indicators(log) = {}
                      /\ Cardinality(Frames(log)) = n
                      /\ \A i \in 0..(n - 1) :
                            /\ drawn[2 * i + 1] =
                                  FrameOf(ws, i, i = ws.focused_window_index)
                            /\ g_prev_positions'[i] =
                                  WithPid(compute_window_positions(n, ws.layout)[i],
                                          ws.windows[i].pid)
              /\ g_prev_window_count' = n
              /\ g_prev_layout' = ws.layout.type
              /\ g_prev_focused' = ws.focused_window_index]_vars

\* the focused one of four windows was closed: four erases, then three frames
C8_Witness ==
    /\ Ran("close_current_window")
    /\ ActiveWs.window_count = 3
    /\ g_prev_window_count = 3
    /\ Erases(draw_log) = 1..4
    /\ Cardinality(Frames(draw_log)) = 3

\* what one more call of redraw_incremental would do in the current state
RedrawAgain == redraw_incremental(ActiveWs, Snapshot)

\* C9: when redraw_incremental runs with count, variant and focus all equal
\* to the snapshot's it issues no draw call and leaves the snapshot unchanged;
\* in particular a second call with no mutation in between does nothing.
C9_RedundantRedraw ==
    /\ [][(RedrawStep /\ ~SeesStructuralChange /\ ~SeesFocusChange) =>
             /\ draw_log' = << >>
             /\ UNCHANGED SnapshotVars]_vars
    /\ [](pc = "running" =>
             /\ RedrawAgain.log = << >>
             /\ RedrawAgain.positions = g_prev_positions
             /\ RedrawAgain.window_count = g_prev_window_count
             /\ RedrawAgain.layout = g_prev_layout
             /\ RedrawAgain.focused = g_prev_focused)

\* cycle_focus on a single window called redraw_incremental with nothing changed
C9_Witness ==
    /\ Ran("cycle_focus")
    /\ last_call.redraw
    /\ ActiveWs.window_count = 1
    /\ g_prev_window_count = 1
    /\ draw_log = << >>

\* ------------------------------------------------------------------------
\* Geometry of the single layouts
\* ------------------------------------------------------------------------
\* the mathematical sum a + b equals c (no wrap-around)
SumEq32(a, b, c) ==
    /\ a[1] + b[1] + ((a[2] + b[2]) \div HalfWord) < HalfWord
    /\ Add32(a, b) = c

ComputedFor(type) == Computed /\ call_args.config.type = type

\* Master-Stack with one window: the rectangle Fullscreen assigns
MasterStackSingle ==
    positions[0] =
        compute_window_positions(1, DEFAULT_LAYOUTS(LAYOUT_FULLSCREEN))[0]

\* Master-Stack with several windows, in unbounded integers
MasterStackSplit ==
    LET gap == U32(call_args.config.gap_size)
        ratio == call_args.config.master_ratio
        master == positions[0]
    IN  \* master width = screen_width * ratio / 100 - 2 * gap
        /\ ProductFits(g_fb_width, ratio)
        /\ SumEq32(master.width, Add32(gap, gap),
                   Div32(Mul32(g_fb_width, ratio), 100))
        \* one x and one width for the whole stack
        /\ \A i \in 1..(call_args.count - 1) :
              /\ positions[i].x = positions[1].x
              /\ positions[i].width = positions[1].width
        \* the stack starts gap pixels right of the master's right edge
        /\ SumLe32(master.x, master.width, g_fb_width)
        /\ SumEq32(Add32(master.x, master.width), gap, positions[1].x)
        \* master width + stack width + 3 * gap = screen_width
        /\ SumLe32(master.width, positions[1].width, g_fb_width)
        /\ SumEq32(Add32(master.width, positions[1].width),
                   Add32(gap, Add32(gap, gap)), g_fb_width)

GridRows(count) == (count + 1) \div 2

\* the cell of column col and row row of a grid of 2 columns and rows rows
GridCell(col, row, rows) ==
    LET gap == call_args.config.gap_size
        usable == Sub32(g_fb_height, U32(TOP_BAR_HEIGHT + gap))
        cell_width == Div32(Sub32(g_fb_width, U32(3 * gap)), 2)
        cell_height == Div32(Sub32(usable, U32(gap * (rows + 1))), rows)
    IN  Rect(IF col = 0 THEN U32(gap)
             ELSE Add32(Add32(U32(gap), cell_width), U32(gap)),
             Add32(U32(TOP_BAR_HEIGHT + gap),
                   Mul32(Add32(cell_height, U32(gap)), row)),
             cell_width,
             cell_height)

\* C12: for every count in 1..6 the grid has 2 columns and ceil(count/2)
\* rows, window i sits in column i mod 2 and row i div 2, all cells have the
\* same width and the same height, computed from the full row count, and for
\* odd count the last window is alone in its row, in column 0.
C12_GridCells ==
    ComputedFor(LAYOUT_GRID) =>
        LET n == call_args.count
            rows == GridRows(n)
        IN  /\ \A i \in 0..(n - 1) :
                  /\ positions[i] = GridCell(i % 2, i \div 2, rows)
                  /\ InsideScreen(positions[i])
                  /\ positions[i].width = positions[0].width
                  /\ positions[i].height = positions[0].height
            /\ Cardinality({positions[i].y : i \in 0..(n - 1)}) = rows
            /\ Cardinality({positions[i].x : i \in 0..(n - 1)}) =
                  IF n = 1 THEN 1 ELSE 2
            /\ n % 2 = 1 =>
                  /\ positions[n - 1].x = U32(call_args.config.gap_size)
                  /\ \A i \in 0..(n - 2) : positions[i].y # positions[n - 1].y

\* five windows: three rows, index 4 alone in row 2, column 0
C12_Witness ==
    /\ ComputedFor(LAYOUT_GRID)
    /\ call_args.count = 5
    /\ g_fb_width = U32(MinFb)
    /\ g_fb_height = U32(MinFb)
    /\ Cardinality({positions[i].y : i \in 0..4}) = 3
    /\ positions[4] = GridCell(0, 2, 3)
    /\ positions[3] = GridCell(1, 1, 3)

\* the draw call issued last among the calls at positions ks of log
LastOf(log, ks) == log[CHOOSE k \in ks : \A j \in ks : j <= k]

\* the last entry point redrew a Fullscreen workspace holding windows
RedrewFullscreen ==
    /\ pc = "running"
    /\ last_call.redraw
    /\ ActiveWs.layout.type = LAYOUT_FULLSCREEN
    /\ ActiveWs.window_count >= 1
    /\ Frames(draw_log) # {}

\* C13: in the Fullscreen layout every frame is drawn at the same full usable
\* rectangle, and after a redraw of a Fullscreen workspace holding windows
\* (structural or focus-only) the frame drawn last onto that rectangle is the
\* focused window's, drawn with the focused border.
C13_FullscreenFocusedOnTop ==
    RedrewFullscreen =>
        LET ws == ActiveWs
            top == LastOf(draw_log, Frames(draw_log))
        IN  /\ \A k \in Frames(draw_log) :
                  draw_log[k].position =
                      compute_window_positions(1, ws.layout)[0]
            /\ top.index = ws.focused_window_index
            /\ top.is_focused

\* C14: within one redraw_incremental invocation every write to the snapshot
\* (rectangles, count, variant, focus index) comes after all the draw calls
\* of that redraw: no store has an erase, a frame or the indicator after it.
C14_SnapshotAfterDraws ==
    \A k \in Stores(draw_log) : \A j \in DrawCalls(draw_log) : j < k

\* the frame the current state calls for at index i of workspace ws
CurrentFrame(ws, i) ==
    [drawn      |-> TRUE,
     position   |-> compute_window_positions(ws.window_count, ws.layout)[i],
     border     |-> IF i = ws.focused_window_index
                    THEN FOCUSED_BORDER_MULTIPLIER * ws.layout.border_size
                    ELSE ws.layout.border_size,
     is_focused |-> i = ws.focused_window_index]

\* C15: after any sequence of mutations, for every index i < window_count of
\* the active workspace the frame drawn last for window i is at the rectangle
\* the current layout assigns to i and has the focused border (3 * border_size)
\* exactly when i is the focus index; so exactly one window carries the
\* focused border whenever the workspace is non-empty.
C15_FramesMatchState ==
    pc = "running" =>
        LET ws == ActiveWs
            n == ws.window_count
        IN  /\ \A i \in 0..(n - 1) : screen.frames[i] = CurrentFrame(ws, i)
            /\ n > 0 =>
                  Cardinality({i \in 0..(n - 1) :
                                  screen.frames[i].border =
                                      FOCUSED_BORDER_MULTIPLIER * ws.layout.border_size})
                      = 1

\* a focus-only redraw among three windows left exactly the middle one with
\* the focused border
C15_Witness ==
    /\ Ran("cycle_focus")
    /\ ~TookStructuralPath(draw_log)
    /\ Cardinality(Frames(draw_log)) = 2
    /\ ActiveWs.window_count = 3
    /\ ActiveWs.focused_window_index = 1
    /\ screen.frames[1].border = FOCUSED_BORDER_MULTIPLIER * ActiveWs.layout.border_size
    /\ screen.frames[0].border = ActiveWs.layout.border_size
    /\ screen.frames[2].border = ActiveWs.layout.border_size

\* the geometry of a snapshot rectangle, without its pid
Geometry(r) == Rect(r.x, r.y, r.width, r.height)

\* C16: after the initial redraw of _start and after every completed add,
\* close, cycle_focus and cycle_layout the snapshot's count, variant and focus
\* index are those of the active workspace and snapshot rectangles
\* 0..count-1 are the ones compute_window_positions returns for the current
\* count and layout configuration; every frame the last redraw drew, on the
\* focus-only path too, is for an index below window_count.
C16_SnapshotConsistent ==
    pc = "running" =>
        LET ws == ActiveWs
            n == ws.window_count
        IN  /\ g_prev_window_count = n
            /\ g_prev_layout = ws.layout.type
            /\ g_prev_focused = ws.focused_window_index
            /\ \A i \in 0..(n - 1) :
                  Geometry(g_prev_positions[i]) =
                      compute_window_positions(n, ws.layout)[i]
            /\ \A k \in Frames(draw_log) :
                  /\ draw_log[k].index \in 0..(n - 1)
                  /\ draw_log[k].position # Indeterminate

\* a focus-only redraw among two windows in the Vertical layout: the snapshot
\* follows the focus and keeps the rectangles of the last structural redraw
C16_Witness ==
    /\ Ran("cycle_focus")
    /\ ~TookStructuralPath(draw_log)
    /\ Frames(draw_log) # {}
    /\ ActiveWs.window_count = 2
    /\ ActiveWs.layout.type = LAYOUT_VERTICAL
    /\ g_prev_focused = ActiveWs.focused_window_index
    /\ Geometry(g_prev_positions[1]) =
          compute_window_positions(2, ActiveWs.layout)[1]

C18_OpenIffBelowCount ==
    \A w \in DOMAIN g_workspaces :
        LET ws == g_workspaces[w]
        IN  \A i \in Slots : (ws.windows[i].is_open = 1) <=> (i < ws.window_count)

\* from + extent + gap <= to, in unbounded integers
GapBefore(from, extent, gap, to) ==
    /\ Le32(U32(gap), to)
    /\ SumLe32(from, extent, Sub32(to, U32(gap)))

\* a and b are at least gap pixels apart along the x axis or along the y axis
Apart(a, b, gap) ==
    \/ GapBefore(a.x, a.width, gap, b.x)
    \/ GapBefore(b.x, b.width, gap, a.x)
    \/ GapBefore(a.y, a.height, gap, b.y)
    \/ GapBefore(b.y, b.height, gap, a.y)

AllApart ==
    \A i, j \in DOMAIN positions :
        i # j => Apart(positions[i], positions[j], call_args.config.gap_size)

TiledCall ==
    /\ Computed
    /\ call_args.count >= 2
    /\ call_args.config.type # LAYOUT_FULLSCREEN

\* the rectangles are pairwise at least gap pixels apart whenever
\* g_fb_width * master_ratio fits in 32 bits; it does not hold beyond
TiledRectanglesApart ==
    (/\ TiledCall
     /\ \/ call_args.config.type # LAYOUT_MASTER_STACK
        \/ ProductFits(g_fb_width, call_args.config.master_ratio))
    => AllApart

\* the fill_rect calls of draw_window_frame, lines 316-320
frame_fills(position, border) ==
    LET x == position.x
        y == position.y
        w == position.width
        h == position.height
        b == U32(border)
    IN  <<Rect(Add32(x, b), Add32(y, b), Sub32(w, U32(border * 2)),
               Sub32(h, U32(border * 2))),
          Rect(x, y, w, b),
          Rect(x, Sub32(Add32(y, h), b), w, b),
          Rect(x, y, b, h),
          Rect(Sub32(Add32(x, w), b), y, b, h)>>

\* the loop of fill_rect, lines 129-133: coordinates from + d for d < extent,
\* computed in uint32_t; do they meet the interval [ofrom, ofrom + oextent),
\* which does not wrap?
fill_meets(from, extent, ofrom, oextent) ==
    LET wraps == from[1] + extent[1] + ((from[2] + extent[2]) \div HalfWord)
                     >= HalfWord
        to == Add32(from, extent)
        oto == Add32(ofrom, oextent)
    IN  /\ extent # U32(0)
        /\ oextent # U32(0)
        /\ IF wraps
           THEN Lt32(from, oto) \/ Lt32(ofrom, to)
           ELSE Lt32(from, oto) /\ Lt32(ofrom, to)

\* fill_rect called with rectangle fill sets a pixel of rectangle other
paints_over(fill, other) ==
    /\ fill_meets(fill.x, fill.width, other.x, other.width)
    /\ fill_meets(fill.y, fill.height, other.y, other.height)

\* drawing the frame of window i, plain or focused, sets no pixel of the
\* rectangle of another window
NoFramePaintsOver ==
    LET bs == call_args.config.border_size
    IN  \A i, j \in DOMAIN positions :
            i # j =>
                \A border \in {bs, FOCUSED_BORDER_MULTIPLIER * bs} :
                    LET fills == frame_fills(positions[i], border)
                    IN  \A k \in DOMAIN fills :
                            ~paints_over(fills[k], positions[j])

\* C19: in the Horizontal, Vertical, Grid and Master-Stack layouts with
\* default configuration, for every count in 2..6 and every framebuffer of at
\* least 64x64, the rectangles of distinct windows are pairwise disjoint and
\* at least gap pixels apart, and drawing one window's frame (as the
\* focus-only path does) paints over no other window's rectangle.
C19_TiledWindowsApart == TiledCall => (AllApart /\ NoFramePaintsOver)

\* C20: whenever the active workspace is empty once a redraw has completed -
\* right after the initial redraw of _start and after closing the last window
\* included - the empty-workspace indicator has been drawn since the last
\* window frame was drawn (or since startup).
C20_EmptyShowsIndicator ==
    (pc = "running" /\ ActiveWs.window_count = 0) => screen.indicator

====
